---- MODULE Spec2Model ----
(***************************************************************************)
(* Event reconciliation pipeline of the Stellar chat demo:                 *)
(*   Welcome.svelte  onMount / onDestroy / callGetMessages / callGetEvents *)
(*   utils/rpc.ts    getEvents   (as quoted in docs/event-handling.md)     *)
(*   utils/zettablocks.ts getMessages (as quoted in docs/event-handling.md)*)
(*                                                                         *)
(* JavaScript runs one task at a time: everything a handler does between   *)
(* the arrival of a network response and its next network call (including  *)
(* the promise continuations that follow without a new task) is one        *)
(* action.                                                                 *)
(***************************************************************************)
EXTENDS Integers, Sequences, FiniteSets, TLC

\* ---------------------------------------------------------------- bounds
MaxId == 2
MaxTs == 2
MaxHist == 2
MaxChain == 2
MaxInflight == 2
MaxCalls == 3
MaxText == 2

\* ------------------------------------------------------ program constants
LookBack == 17280
PollPeriod == 12000

\* ------------------------------------------------------------ data model
Ids == 1..MaxId
Stamps == 1..MaxTs

UNDEFINED == "<undefined>"
NULL == "<null>"
AccountAddr == "G-account"
ContractAddr == "C-contract"
LoadError == "Failed to load messages. Please try again later."

\* A raw event as returned by rpc.getEvents.  topic0 is the discriminator of
\* the address held by the first topic, or "notAnAddress" when the topic is
\* not an address value (event.topic[0].address() throws).
TopicKinds == {"scAddressTypeAccount", "scAddressTypeContract",
               "scAddressTypeMuxedAccount", "notAnAddress"}
ValueKinds == {"scvString", "invalid"}

FaultCount(e) ==
    (IF e.type # "contract" THEN 1 ELSE 0)
  + (IF ~e.contractId THEN 1 ELSE 0)
  + (IF e.topic0 = "notAnAddress" THEN 1 ELSE 0)
  + (IF e.value.type = "invalid" THEN 1 ELSE 0)

AllRawEvents ==
    [id : Ids, type : {"contract", "system"}, contractId : BOOLEAN,
     topic0 : TopicKinds, value : [type : ValueKinds, str : Ids],
     ledgerClosedAt : Stamps, txHash : Ids]

\* The events the ledger can hold: payload and transaction hash are tied to
\* the id, and an event has at most one defect.  The close time of a
\* defective event is never read, and neither is the discriminator of an
\* event that is filtered out or whose payload cannot be decoded: one
\* representative of each stands for all.
RawEvents ==
    {e \in AllRawEvents :
        /\ e.value.str = e.id
        /\ e.txHash = e.id
        /\ FaultCount(e) <= 1
        /\ (FaultCount(e) = 1 => e.ledgerClosedAt = 1)
        /\ (FaultCount(e) = 1 /\ e.topic0 # "notAnAddress"
               => e.topic0 = "scAddressTypeAccount")}

\* ChatEvent
ChatEvent(i, a, t, h, m) ==
    [id |-> i, addr |-> a, timestamp |-> t, txHash |-> h, msg |-> m]

\* Rows delivered by the indexer, already decoded.
HistRecords == {ChatEvent(i, AccountAddr, t, i, i) : i \in Ids, t \in Stamps}

RECURSIVE SeqsUpTo(_, _)
SeqsUpTo(S, n) ==
    IF n = 0 THEN {<<>>}
    ELSE LET shorter == SeqsUpTo(S, n - 1)
         IN shorter \cup {Append(s, x) : s \in {q \in shorter : Len(q) = n - 1}, x \in S}

HistLists == SeqsUpTo(HistRecords, MaxHist)

\* ------------------------------------------------------- pure functions
\* (a, b) => a.timestamp.getTime() - b.timestamp.getTime()
compare(a, b) == a.timestamp - b.timestamp

\* an insertion that puts an element before the elements it compares equal to
RECURSIVE InsertSortedBeforeTies(_, _)
InsertSortedBeforeTies(s, r) ==
    IF s = <<>> THEN <<r>>
    ELSE IF compare(s[Len(s)], r) < 0 THEN Append(s, r)
    ELSE Append(InsertSortedBeforeTies(SubSeq(s, 1, Len(s) - 1), r), s[Len(s)])

\* Array.prototype.sort is stable: an element goes after every element that
\* does not compare greater than it.
RECURSIVE InsertSorted(_, _)
InsertSorted(s, r) ==
    IF s = <<>> THEN <<r>>
    ELSE IF compare(s[Len(s)], r) <= 0 THEN Append(s, r)
    ELSE Append(InsertSorted(SubSeq(s, 1, Len(s) - 1), r), s[Len(s)])

\* a sort that leaves the array as it is
sortKeepsOrder(s) == s

RECURSIVE sortFrom(_, _)
sortFrom(acc, s) ==
    IF s = <<>> THEN acc ELSE sortFrom(InsertSorted(acc, Head(s)), Tail(s))

sort(s) == sortFrom(<<>>, s)

\* a lookup that never finds the id
neverFound(m, i) == TRUE

\* msgs.findIndex(({id}) => id === event.id) === -1
notFound(m, i) == \A k \in 1..Len(m) : m[k].id # i

\* the switch over topic0.switch().name: no default arm
decodeAddr(e) ==
    CASE e.topic0 = "scAddressTypeAccount" -> AccountAddr
      [] e.topic0 = "scAddressTypeContract" -> ContractAddr
      [] OTHER -> UNDEFINED

\* scValToNative(event.value)
scValToNative(v) == v.str

\* event.topic[0].address() or scValToNative(event.value) throws
throws(e) == e.topic0 = "notAnAddress" \/ e.value.type = "invalid"

\* the record getEvents pushes for the event e
toRecord(e) ==
    ChatEvent(e.id, decodeAddr(e), e.ledgerClosedAt, e.txHash,
              scValToNative(e.value))

\* a forEach in which an incoming event overwrites the record of its id
RECURSIVE processEventsLastWins(_, _)
processEventsLastWins(m, events) ==
    IF events = <<>> THEN m
    ELSE LET e == Head(events) IN
         IF e.type # "contract" \/ ~e.contractId
           THEN processEventsLastWins(m, Tail(events))
         ELSE IF throws(e)
           THEN m
         ELSE IF ~notFound(m, e.id)
           THEN processEventsLastWins(
                  [k \in 1..Len(m) |-> IF m[k].id = e.id THEN toRecord(e) ELSE m[k]],
                  Tail(events))
         ELSE processEventsLastWins(Append(m, toRecord(e)), Tail(events))

\* events.forEach(...) inside the try block of getEvents: an exception leaves
\* the loop, and the records pushed so far stay in the array.
RECURSIVE processEvents(_, _)
processEvents(m, events) ==
    IF events = <<>> THEN m
    ELSE LET e == Head(events) IN
         IF e.type # "contract" \/ ~e.contractId
           THEN processEvents(m, Tail(events))
         ELSE IF ~notFound(m, e.id)
           THEN processEvents(m, Tail(events))
         ELSE IF throws(e)
           THEN m
         ELSE processEvents(
                Append(m, ChatEvent(e.id, decodeAddr(e), e.ledgerClosedAt,
                                    e.txHash, scValToNative(e.value))),
                Tail(events))

\* a getEvents that collects into a fresh array instead of the caller's
getEventsOkFresh(m, events) == processEvents(<<>>, events)

\* getEvents when rpc.getEvents resolved with `events`
getEventsOk(m, events) == processEvents(m, events)

\* a catch that returns a fresh empty array
getEventsCatchEmpty(m) == <<>>

\* getEvents when rpc.getEvents threw: catch logs, then `return msgs`
getEventsCatch(m) == m

\* getMessages when the request failed: catch logs, then `return []`
getMessagesCatch == <<>>

\* ------------------------------------------------------------------ state
VARIABLES
    chain,        \* contract events on the ledger, oldest first
    msgs,         \* Welcome.svelte: let msgs
    loading,      \* Welcome.svelte: let loading
    error,        \* Welcome.svelte: let error
    interval,     \* Welcome.svelte: let interval (the timer handle)
    timerActive,  \* the timer created by setInterval has not been cleared
    destroyed,    \* onDestroy has run
    pc,           \* position of the onMount callback
    mountSnap,    \* events covered by the initial rpc.getEvents request
    tickLedger,   \* timer callbacks waiting for rpc.getLatestLedger
    tickEvents,   \* timer callbacks waiting for rpc.getEvents, per request
    hist,         \* what getMessages delivered
    last,         \* the step taken last
    merged,       \* the live merge of the last step: events covered, records added
    msg,          \* Welcome.svelte: let msg (the textarea)
    sending,      \* Welcome.svelte: let sending
    contractId,   \* store/contractId
    keyId,        \* store/keyId
    sendPc,       \* position of send()
    at,           \* send(): let at (the transaction)
    submitted,    \* the transactions server.send has been called with
    sendLog,      \* the steps the current send() has started
    mergeA,       \* callGetEvents in isolation: msgs before the first call
    mergeB,       \* callGetEvents in isolation: the events rpc.getEvents returns
    mergeOut,     \* callGetEvents in isolation: msgs after the last call
    mergeCalls,   \* callGetEvents in isolation: calls made so far
    mergeB2,      \* callGetEvents in isolation: the events of a second fetch
    mergeRev,     \* callGetEvents in isolation: msgs when mergeB2 came first
    creating,     \* header: let creating
    headerLoading, \* header: let loading
    headerError,  \* header: let error
    localStorage, \* window.localStorage: key -> value or Absent
    sessionStorage, \* window.sessionStorage: key -> value or Absent
    connects,     \* account.connectWallet calls that have not returned
    headerPc,     \* the page: header not mounted, mounted, or reloading
    signUpPc,     \* position of signUp()
    wallet        \* signUp(): what account.createWallet returned

sendVars == <<msg, sending, contractId, keyId, sendPc, at, submitted, sendLog>>

mergeVars == <<mergeA, mergeB, mergeOut, mergeCalls, mergeB2, mergeRev>>

welcomeVars == <<chain, msgs, loading, error, interval, timerActive, destroyed,
                 pc, mountSnap, tickLedger, tickEvents, hist, last, merged>>

headerVars == <<creating, headerLoading, headerError, localStorage,
                sessionStorage, connects, headerPc, signUpPc, wallet>>

vars == <<chain, msgs, loading, error, interval, timerActive, destroyed, pc,
          mountSnap, tickLedger, tickEvents, hist, last, merged, sendVars,
          mergeVars, headerVars>>

Snaps == 0..MaxChain

\* Storage keys, as sequences of the pieces of their name: "ssd:keyId",
\* "app-ssd:tmp" and "theme".
SsdKeyId == <<"ssd:", "keyId">>
StorageKeys == {SsdKeyId, <<"app-", "ssd:", "tmp">>, <<"theme">>}
Absent == "<absent>"
NoStorage == [k \in StorageKeys |-> Absent]

\* the header before its script has run
HeaderFresh ==
    /\ creating = FALSE
    /\ headerLoading = FALSE
    /\ headerError = NULL
    /\ connects = <<>>
    /\ headerPc = "unmounted"
    /\ signUpPc = "idle"
    /\ wallet = NULL
EmptyText == <<>>
NotLoaded == [state |-> "notLoaded", rows |-> <<>>]
Failed == [state |-> "failed", rows |-> <<>>]
Loaded(h) == [state |-> "ok", rows |-> h]
Handle == "timer"
NoMerge == [n |-> 0, added |-> 0]
Merged(n, old, new) == [n |-> n, added |-> Len(new) - Len(old)]

\* the component before onMount runs
Unmounted ==
    /\ chain = <<>>
    /\ msgs = <<>>
    /\ loading = TRUE
    /\ error = NULL
    /\ interval = UNDEFINED
    /\ timerActive = FALSE
    /\ destroyed = FALSE
    /\ pc = "start"
    /\ mountSnap = 0
    /\ tickLedger = 0
    /\ tickEvents = [n \in Snaps |-> 0]
    /\ hist = NotLoaded
    /\ last = "Init"
    /\ merged = NoMerge
    /\ msg = EmptyText
    /\ sending = FALSE
    /\ contractId = NULL
    /\ keyId = NULL
    /\ sendPc = "idle"
    /\ at = NULL
    /\ submitted = {}
    /\ sendLog = <<>>
    /\ HeaderFresh

Init ==
    /\ Unmounted
    /\ localStorage = NoStorage
    /\ sessionStorage = NoStorage
    /\ mergeA = <<>>
    /\ mergeB = <<>>
    /\ mergeOut = <<>>
    /\ mergeCalls = 0
    /\ mergeB2 = <<>>
    /\ mergeRev = <<>>

\* the batch rpc.getEvents returns for a request that covered n events
batch(n) == SubSeq(chain, 1, n)

RECURSIVE sumUpTo(_, _)
sumUpTo(f, n) == IF n < 0 THEN 0 ELSE f[n] + sumUpTo(f, n - 1)

\* timer callbacks that have not finished
inflight == tickLedger + sumUpTo(tickEvents, MaxChain)

\* ---------------------------------------------------------------- actions
\* The contract emits an event.
Emit(e) ==
    /\ Len(chain) < MaxChain
    /\ chain' = Append(chain, e)
    /\ last' = "Emit"
    /\ merged' = NoMerge
    /\ UNCHANGED <<sendVars, mergeVars, headerVars>>
    /\ UNCHANGED <<msgs, loading, error, interval, timerActive, destroyed, pc,
                   mountSnap, tickLedger, tickEvents, hist>>

\* an onMount that creates the timer before its first await
MountStartsTimer ==
    /\ pc = "start"
    /\ loading' = TRUE
    /\ interval' = Handle
    /\ timerActive' = TRUE
    /\ pc' = "awaitMessages"
    /\ last' = "Mount"
    /\ merged' = NoMerge
    /\ UNCHANGED <<sendVars, mergeVars, headerVars>>
    /\ UNCHANGED <<chain, msgs, error, destroyed, mountSnap, tickLedger,
                   tickEvents, hist>>

\* onMount up to the first await: loading = true; callGetMessages()
Mount ==
    /\ pc = "start"
    /\ loading' = TRUE
    /\ pc' = "awaitMessages"
    /\ last' = "Mount"
    /\ merged' = NoMerge
    /\ UNCHANGED <<sendVars, mergeVars, headerVars>>
    /\ UNCHANGED <<chain, msgs, error, interval, timerActive, destroyed,
                   mountSnap, tickLedger, tickEvents, hist>>

\* getMessages resolved with h; callGetMessages sorts; rpc.getLatestLedger()
MessagesOk(h) ==
    /\ pc = "awaitMessages"
    /\ msgs' = sort(h)
    /\ hist' = Loaded(h)
    /\ pc' = "awaitLedger"
    /\ last' = "MessagesOk"
    /\ merged' = NoMerge
    /\ UNCHANGED <<sendVars, mergeVars, headerVars>>
    /\ UNCHANGED <<chain, loading, error, interval, timerActive, destroyed,
                   mountSnap, tickLedger, tickEvents>>

\* a getMessages without its catch: the failure reaches the catch of onMount
MessagesFailPropagates ==
    /\ pc = "awaitMessages"
    /\ hist' = Failed
    /\ error' = LoadError
    /\ loading' = FALSE
    /\ pc' = "done"
    /\ last' = "MessagesFail"
    /\ merged' = NoMerge
    /\ UNCHANGED <<sendVars, mergeVars, headerVars>>
    /\ UNCHANGED <<chain, msgs, interval, timerActive, destroyed, mountSnap,
                   tickLedger, tickEvents>>

\* the indexer request failed inside getMessages
MessagesFail ==
    /\ pc = "awaitMessages"
    /\ msgs' = sort(getMessagesCatch)
    /\ hist' = Failed
    /\ pc' = "awaitLedger"
    /\ last' = "MessagesFail"
    /\ merged' = NoMerge
    /\ UNCHANGED <<sendVars, mergeVars, headerVars>>
    /\ UNCHANGED <<chain, loading, error, interval, timerActive, destroyed,
                   mountSnap, tickLedger, tickEvents>>

\* rpc.getLatestLedger resolved in onMount; callGetEvents -> rpc.getEvents
InitLedgerOk ==
    /\ pc = "awaitLedger"
    /\ mountSnap' = Len(chain)
    /\ pc' = "awaitEvents"
    /\ last' = "InitLedgerOk"
    /\ merged' = NoMerge
    /\ UNCHANGED <<sendVars, mergeVars, headerVars>>
    /\ UNCHANGED <<chain, msgs, loading, error, interval, timerActive,
                   destroyed, tickLedger, tickEvents, hist>>

\* an outer catch without the finally block: loading keeps its value
InitLedgerFailNoFinally ==
    /\ pc = "awaitLedger"
    /\ error' = LoadError
    /\ pc' = "done"
    /\ last' = "InitLedgerFail"
    /\ merged' = NoMerge
    /\ UNCHANGED <<sendVars, mergeVars, headerVars>>
    /\ UNCHANGED <<chain, msgs, loading, interval, timerActive, destroyed,
                   mountSnap, tickLedger, tickEvents, hist>>

\* rpc.getLatestLedger threw in onMount: outer catch, then finally
InitLedgerFail ==
    /\ pc = "awaitLedger"
    /\ error' = LoadError
    /\ loading' = FALSE
    /\ pc' = "done"
    /\ last' = "InitLedgerFail"
    /\ merged' = NoMerge
    /\ UNCHANGED <<sendVars, mergeVars, headerVars>>
    /\ UNCHANGED <<chain, msgs, interval, timerActive, destroyed, mountSnap,
                   tickLedger, tickEvents, hist>>

\* what onMount does once callGetEvents has returned: setInterval, finally
MountFinish ==
    /\ interval' = Handle
    /\ timerActive' = TRUE
    /\ loading' = FALSE
    /\ mountSnap' = 0
    /\ pc' = "done"

\* an initial live fetch that calls getEvents with a fresh array
InitEventsOkFresh ==
    /\ pc = "awaitEvents"
    /\ msgs' = sort(getEventsOk(<<>>, batch(mountSnap)))
    /\ MountFinish
    /\ last' = "InitEventsOk"
    /\ merged' = Merged(mountSnap, msgs, msgs')
    /\ UNCHANGED <<sendVars, mergeVars, headerVars>>
    /\ UNCHANGED <<chain, error, destroyed, tickLedger, tickEvents, hist>>

\* the initial rpc.getEvents resolved
InitEventsOk ==
    /\ pc = "awaitEvents"
    /\ msgs' = sort(getEventsOk(msgs, batch(mountSnap)))
    /\ MountFinish
    /\ last' = "InitEventsOk"
    /\ merged' = Merged(mountSnap, msgs, msgs')
    /\ UNCHANGED <<sendVars, mergeVars, headerVars>>
    /\ UNCHANGED <<chain, error, destroyed, tickLedger, tickEvents, hist>>

\* the initial rpc.getEvents threw
InitEventsFail ==
    /\ pc = "awaitEvents"
    /\ msgs' = sort(getEventsCatch(msgs))
    /\ MountFinish
    /\ last' = "InitEventsFail"
    /\ merged' = NoMerge
    /\ UNCHANGED <<sendVars, mergeVars, headerVars>>
    /\ UNCHANGED <<chain, error, destroyed, tickLedger, tickEvents, hist>>

\* the timer fires: the callback calls rpc.getLatestLedger()
TickFire ==
    /\ timerActive
    /\ inflight < MaxInflight
    /\ tickLedger' = tickLedger + 1
    /\ last' = "TickFire"
    /\ merged' = NoMerge
    /\ UNCHANGED <<sendVars, mergeVars, headerVars>>
    /\ UNCHANGED <<chain, msgs, loading, error, interval, timerActive,
                   destroyed, pc, mountSnap, tickEvents, hist>>

\* rpc.getLatestLedger resolved in a timer callback; callGetEvents
TickLedgerOk ==
    /\ tickLedger > 0
    /\ tickLedger' = tickLedger - 1
    /\ tickEvents' = [tickEvents EXCEPT ![Len(chain)] = @ + 1]
    /\ last' = "TickLedgerOk"
    /\ merged' = NoMerge
    /\ UNCHANGED <<sendVars, mergeVars, headerVars>>
    /\ UNCHANGED <<chain, msgs, loading, error, interval, timerActive,
                   destroyed, pc, mountSnap, hist>>

\* rpc.getLatestLedger threw in a timer callback: the callback's catch
TickLedgerFail ==
    /\ tickLedger > 0
    /\ tickLedger' = tickLedger - 1
    /\ last' = "TickLedgerFail"
    /\ merged' = NoMerge
    /\ UNCHANGED <<sendVars, mergeVars, headerVars>>
    /\ UNCHANGED <<chain, msgs, loading, error, interval, timerActive,
                   destroyed, pc, mountSnap, tickEvents, hist>>

\* a callback that publishes what getEvents returned without sorting it
TickEventsOkUnsorted(n) ==
    /\ tickEvents[n] > 0
    /\ msgs' = getEventsOk(msgs, batch(n))
    /\ tickEvents' = [tickEvents EXCEPT ![n] = @ - 1]
    /\ last' = "TickEventsOk"
    /\ merged' = Merged(n, msgs, msgs')
    /\ UNCHANGED <<sendVars, mergeVars, headerVars>>
    /\ UNCHANGED <<chain, loading, error, interval, timerActive, destroyed,
                   pc, mountSnap, tickLedger, hist>>

\* rpc.getEvents resolved in a timer callback
TickEventsOk(n) ==
    /\ tickEvents[n] > 0
    /\ msgs' = sort(getEventsOk(msgs, batch(n)))
    /\ tickEvents' = [tickEvents EXCEPT ![n] = @ - 1]
    /\ last' = "TickEventsOk"
    /\ merged' = Merged(n, msgs, msgs')
    /\ UNCHANGED <<sendVars, mergeVars, headerVars>>
    /\ UNCHANGED <<chain, loading, error, interval, timerActive, destroyed,
                   pc, mountSnap, tickLedger, hist>>

\* rpc.getEvents threw in a timer callback
TickEventsFail(n) ==
    /\ tickEvents[n] > 0
    /\ msgs' = sort(getEventsCatch(msgs))
    /\ tickEvents' = [tickEvents EXCEPT ![n] = @ - 1]
    /\ last' = "TickEventsFail"
    /\ merged' = NoMerge
    /\ UNCHANGED <<sendVars, mergeVars, headerVars>>
    /\ UNCHANGED <<chain, loading, error, interval, timerActive, destroyed,
                   pc, mountSnap, tickLedger, hist>>

\* onDestroy: if (interval) clearInterval(interval)
Destroy ==
    /\ pc # "start"
    /\ ~destroyed
    /\ destroyed' = TRUE
    /\ timerActive' = IF interval # UNDEFINED THEN FALSE ELSE timerActive
    /\ last' = "Destroy"
    /\ merged' = NoMerge
    /\ UNCHANGED <<sendVars, mergeVars, headerVars>>
    /\ UNCHANGED <<chain, msgs, loading, error, interval, pc, mountSnap,
                   tickLedger, tickEvents, hist>>

Next ==
    \/ \E e \in RawEvents : Emit(e)
    \/ Mount
    \/ \E h \in HistLists : MessagesOk(h)
    \/ MessagesFail
    \/ InitLedgerOk
    \/ InitLedgerFail
    \/ InitEventsOk
    \/ InitEventsFail
    \/ TickFire
    \/ TickLedgerOk
    \/ TickLedgerFail
    \/ \E n \in Snaps : TickEventsOk(n)
    \/ \E n \in Snaps : TickEventsFail(n)
    \/ Destroy

Spec == Init /\ [][Next]_vars

\* ------------------------------------------- callGetEvents in isolation
\* callGetEvents when rpc.getEvents resolved with `events`: msgs is replaced
\* by what getEvents returns, then sorted.
callGetEvents(m, events) == sort(getEventsOk(m, events))

\* The lists msgs can hold when a live fetch resolves: every assignment to
\* msgs is followed by the sort, so the list is sorted; ids may repeat.
SortedLists == {sort(h) : h \in HistLists}

\* the batches rpc.getEvents can resolve with
Batches == SeqsUpTo(RawEvents, MaxChain)

MergeInit ==
    /\ Unmounted
    /\ localStorage = NoStorage
    /\ sessionStorage = NoStorage
    /\ mergeA \in SortedLists
    /\ mergeB \in Batches
    /\ mergeOut = mergeA
    /\ mergeCalls = 0
    /\ mergeB2 = <<>>
    /\ mergeRev = <<>>

\* the first live fetch over mergeA resolves with mergeB
MergeFirst ==
    /\ mergeCalls = 0
    /\ mergeOut' = callGetEvents(mergeOut, mergeB)
    /\ mergeCalls' = 1
    /\ UNCHANGED <<mergeA, mergeB, mergeB2, mergeRev, welcomeVars, sendVars, headerVars>>

\* a later tick resolves with the same events again
MergeAgain ==
    /\ mergeCalls >= 1
    /\ mergeCalls < MaxCalls
    /\ mergeOut' = callGetEvents(mergeOut, mergeB)
    /\ mergeCalls' = mergeCalls + 1
    /\ UNCHANGED <<mergeA, mergeB, mergeB2, mergeRev, welcomeVars, sendVars, headerVars>>

MergeNext == MergeFirst \/ MergeAgain

MergeSpec == MergeInit /\ [][MergeNext]_vars

\* ------------------------------------------ two fetches in either order
\* The events two fetches are compared on.  Which address a well-formed
\* event decodes to and which defect makes an event filtered or undecodable
\* do not matter to the merge: one well-formed kind, one filtered kind and
\* one undecodable kind stand for all.
MergeEvents ==
    {e \in RawEvents :
        /\ e.topic0 \in {"scAddressTypeAccount", "notAnAddress"}
        /\ e.value.type # "invalid"
        /\ e.contractId}

MergeBatches == SeqsUpTo(MergeEvents, MaxChain)

CommuteInit ==
    /\ Unmounted
    /\ localStorage = NoStorage
    /\ sessionStorage = NoStorage
    /\ mergeA \in SortedLists
    /\ mergeB \in MergeBatches
    /\ mergeB2 \in MergeBatches
    /\ mergeOut = mergeA
    /\ mergeRev = mergeA
    /\ mergeCalls = 0

\* two live fetches resolve one after the other: with mergeB then mergeB2,
\* and, from the same list, with mergeB2 then mergeB
MergeBothOrders ==
    /\ mergeCalls = 0
    /\ mergeOut' = callGetEvents(callGetEvents(mergeA, mergeB), mergeB2)
    /\ mergeRev' = callGetEvents(callGetEvents(mergeA, mergeB2), mergeB)
    /\ mergeCalls' = 2
    /\ UNCHANGED <<mergeA, mergeB, mergeB2, welcomeVars, sendVars, headerVars>>

CommuteNext == MergeBothOrders

CommuteSpec == CommuteInit /\ [][CommuteNext]_vars

\* -------------------------------------------------------------- send()
\* What the textarea can hold: texts of blanks and letters.
Chars == {" ", "h"}
Texts == SeqsUpTo(Chars, MaxText)

\* String.prototype.trim: the text without leading and trailing blanks
RECURSIVE trimStart(_)
trimStart(t) ==
    IF t = <<>> \/ Head(t) # " " THEN t ELSE trimStart(Tail(t))

RECURSIVE trimEnd(_)
trimEnd(t) ==
    IF t = <<>> \/ t[Len(t)] # " " THEN t ELSE trimEnd(SubSeq(t, 1, Len(t) - 1))

trim(t) == trimEnd(trimStart(t))

ChatContract == "chatContract"
PasskeyId == "passkey"
SendError == "Failed to send message. Please try again."

\* the transaction chat.send builds, and what account.sign makes of it
Assembled(c, t) == [addr |-> c, msg |-> t, signed |-> FALSE]
Signed(tx) == [tx EXCEPT !.signed = TRUE]

\* the variables of the message loading that send() does not touch
loadVars == <<chain, msgs, loading, interval, timerActive, destroyed, pc,
              mountSnap, tickLedger, tickEvents, hist, merged>>

\* the user edits the textarea (disabled while sending)
Type(t) ==
    /\ ~sending
    /\ msg' = t
    /\ last' = "Type"
    /\ UNCHANGED <<sending, contractId, keyId, sendPc, at, submitted, sendLog>>
    /\ UNCHANGED <<loadVars, error, mergeVars, headerVars>>

\* the contractId store changes
SetContractId(c) ==
    /\ contractId' = c
    /\ last' = "SetContractId"
    /\ UNCHANGED <<msg, sending, keyId, sendPc, at, submitted, sendLog>>
    /\ UNCHANGED <<loadVars, error, mergeVars, headerVars>>

\* the keyId store changes
SetKeyId(k) ==
    /\ keyId' = k
    /\ last' = "SetKeyId"
    /\ UNCHANGED <<msg, sending, contractId, sendPc, at, submitted, sendLog>>
    /\ UNCHANGED <<loadVars, error, mergeVars, headerVars>>

\* a guard that tests the text without trimming it
sendGuardNoTrim == contractId = NULL \/ keyId = NULL \/ msg = EmptyText

\* if (!$contractId || !$keyId || !msg.trim()) return;
sendGuard == contractId = NULL \/ keyId = NULL \/ trim(msg) = EmptyText

\* send() is called and returns at its guard
SendReturn ==
    /\ sendPc = "idle"
    /\ sendGuard
    /\ last' = "SendReturn"
    /\ UNCHANGED <<sendVars, loadVars, error, mergeVars, headerVars>>

\* send() passes its guard: sending = true, error = null, chat.send is called.
\* The submit button is disabled while sending, so one send runs at a time.
SendStart ==
    /\ sendPc = "idle"
    /\ ~sendGuard
    /\ sending' = TRUE
    /\ error' = NULL
    /\ at' = NULL
    /\ sendPc' = "create"
    /\ sendLog' = <<"create">>
    /\ last' = "SendStart"
    /\ UNCHANGED <<msg, contractId, keyId, submitted>>
    /\ UNCHANGED <<loadVars, mergeVars, headerVars>>

\* a catch without the finally block: sending keeps its value
sendCatchNoFinally ==
    /\ error' = SendError
    /\ sendPc' = "idle"
    /\ UNCHANGED <<msg, sending, contractId, keyId, at, submitted, sendLog>>
    /\ UNCHANGED <<loadVars, mergeVars, headerVars>>

\* catch: error is set; finally: sending = false
sendCatch ==
    /\ error' = SendError
    /\ sending' = FALSE
    /\ sendPc' = "idle"
    /\ UNCHANGED <<msg, contractId, keyId, at, submitted, sendLog>>
    /\ UNCHANGED <<loadVars, mergeVars, headerVars>>

\* chat.send resolved: at is assigned and account.sign is called
CreateOk ==
    /\ sendPc = "create"
    /\ at' = Assembled(contractId, msg)
    /\ sendPc' = "sign"
    /\ sendLog' = Append(sendLog, "sign")
    /\ last' = "CreateOk"
    /\ UNCHANGED <<msg, sending, contractId, keyId, submitted>>
    /\ UNCHANGED <<loadVars, error, mergeVars, headerVars>>

\* chat.send threw
CreateFail ==
    /\ sendPc = "create"
    /\ sendCatch
    /\ last' = "CreateFail"

\* account.sign resolved: at is assigned and server.send is called with it
SignOk ==
    /\ sendPc = "sign"
    /\ at' = Signed(at)
    /\ submitted' = submitted \cup {at'}
    /\ sendPc' = "submit"
    /\ sendLog' = Append(sendLog, "submit")
    /\ last' = "SignOk"
    /\ UNCHANGED <<msg, sending, contractId, keyId>>
    /\ UNCHANGED <<loadVars, error, mergeVars, headerVars>>

\* a failed signing that goes on to submit the unsigned transaction
SignFailSubmits ==
    /\ sendPc = "sign"
    /\ submitted' = submitted \cup {at}
    /\ sendPc' = "submit"
    /\ sendLog' = Append(sendLog, "submit")
    /\ last' = "SignFail"
    /\ UNCHANGED <<msg, sending, contractId, keyId, at>>
    /\ UNCHANGED <<loadVars, error, mergeVars, headerVars>>

\* account.sign threw
SignFail ==
    /\ sendPc = "sign"
    /\ sendCatch
    /\ last' = "SignFail"

\* server.send resolved: msg = ""; finally: sending = false
SubmitOk ==
    /\ sendPc = "submit"
    /\ msg' = EmptyText
    /\ sending' = FALSE
    /\ sendPc' = "idle"
    /\ last' = "SubmitOk"
    /\ UNCHANGED <<contractId, keyId, at, submitted, sendLog>>
    /\ UNCHANGED <<loadVars, error, mergeVars, headerVars>>

\* a failed submit that clears the textarea all the same
SubmitFailClears ==
    /\ sendPc = "submit"
    /\ msg' = EmptyText
    /\ error' = SendError
    /\ sending' = FALSE
    /\ sendPc' = "idle"
    /\ last' = "SubmitFail"
    /\ UNCHANGED <<contractId, keyId, at, submitted, sendLog>>
    /\ UNCHANGED <<loadVars, mergeVars, headerVars>>

\* server.send threw
SubmitFail ==
    /\ sendPc = "submit"
    /\ sendCatch
    /\ last' = "SubmitFail"

SendNext ==
    \/ \E t \in Texts : Type(t)
    \/ \E c \in {NULL, ChatContract} : SetContractId(c)
    \/ \E k \in {NULL, PasskeyId} : SetKeyId(k)
    \/ SendReturn
    \/ SendStart
    \/ CreateOk
    \/ CreateFail
    \/ SignOk
    \/ SignFail
    \/ SubmitOk
    \/ SubmitFail

SendSpec == Init /\ [][SendNext]_vars

\* ------------------------------------------------------------- header
OtherPasskeyId == "passkey2"
PasskeyIds == {PasskeyId, OtherPasskeyId}
OtherContract == "otherContract"

\* the contractId account.connectWallet and account.createWallet return for
\* a passkey
contractOf(k) == IF k = PasskeyId THEN ChatContract ELSE OtherContract

ConnectError == "Failed to connect wallet"
LoginError == "Failed to login"
CreateError == "Failed to create account"

\* what the browser's storages can hold when the page loads
LocalStorages ==
    {st \in [StorageKeys -> {Absent, "v"} \cup PasskeyIds] :
        /\ st[SsdKeyId] \in {Absent} \cup PasskeyIds
        /\ \A k \in StorageKeys \ {SsdKeyId} : st[k] \in {Absent, "v"}}

SessionStorages == [StorageKeys -> {Absent, "v"}]

\* key.includes(piece)
includes(key, piece) == \E i \in 1..Len(key) : key[i] = piece

\* Object.keys(storage).forEach: removeItem for every key that includes "ssd:"
removeSsd(st) ==
    [k \in StorageKeys |-> IF includes(k, "ssd:") THEN Absent ELSE st[k]]

\* an account.connectWallet call in flight: who made it, and with which keyId
Call(by, k) == [by |-> by, key |-> k]
Remove(cs, i) == SubSeq(cs, 1, i - 1) \o SubSeq(cs, i + 1, Len(cs))

\* keyId.set(v) notifies the subscriber when the value changes; the
\* subscriber, given a key, sets loading and calls account.connectWallet
notifies(v) == v # keyId /\ v # NULL
keyIdSet(v, cs) == IF notifies(v) THEN Append(cs, Call("subscribe", v)) ELSE cs

\* the variables of the chat component that the header does not touch
chatVars == <<loadVars, error, mergeVars, msg, sending, sendPc, at, submitted,
              sendLog>>

HeaderInit ==
    /\ Unmounted
    /\ localStorage \in LocalStorages
    /\ sessionStorage \in SessionStorages
    /\ mergeA = <<>>
    /\ mergeB = <<>>
    /\ mergeOut = <<>>
    /\ mergeCalls = 0
    /\ mergeB2 = <<>>
    /\ mergeRev = <<>>

\* onMount of the header: restore keyId from localStorage
HeaderMount ==
    /\ headerPc = "unmounted"
    /\ headerPc' = "mounted"
    /\ IF localStorage[SsdKeyId] # Absent
         THEN /\ keyId' = localStorage[SsdKeyId]
              /\ connects' = keyIdSet(localStorage[SsdKeyId], connects)
              /\ headerLoading' = (notifies(localStorage[SsdKeyId]) \/ headerLoading)
         ELSE UNCHANGED <<keyId, connects, headerLoading>>
    /\ last' = "HeaderMount"
    /\ UNCHANGED <<creating, headerError, localStorage, sessionStorage,
                   signUpPc, wallet, contractId, chatVars>>

\* the connectWallet call of the keyId subscriber resolved
ConnectOk(i) ==
    /\ i \in 1..Len(connects)
    /\ connects[i].by = "subscribe"
    /\ contractId' = contractOf(connects[i].key)
    /\ headerLoading' = FALSE
    /\ connects' = Remove(connects, i)
    /\ last' = "ConnectOk"
    /\ UNCHANGED <<creating, headerError, localStorage, sessionStorage,
                   headerPc, signUpPc, wallet, keyId, chatVars>>

\* the connectWallet call of the keyId subscriber threw
ConnectFail(i) ==
    /\ i \in 1..Len(connects)
    /\ connects[i].by = "subscribe"
    /\ headerError' = ConnectError
    /\ headerLoading' = FALSE
    /\ connects' = Remove(connects, i)
    /\ last' = "ConnectFail"
    /\ UNCHANGED <<creating, localStorage, sessionStorage, headerPc,
                   signUpPc, wallet, keyId, contractId, chatVars>>

\* login() is called: the buttons are shown without a contractId and are
\* disabled while loading or creating
LoginStart ==
    /\ headerPc = "mounted"
    /\ contractId = NULL
    /\ ~headerLoading /\ ~creating
    /\ headerLoading' = TRUE
    /\ headerError' = NULL
    /\ connects' = Append(connects, Call("login", NULL))
    /\ last' = "LoginStart"
    /\ UNCHANGED <<creating, localStorage, sessionStorage, headerPc,
                   signUpPc, wallet, keyId, contractId, chatVars>>

\* the connectWallet call of login() resolved with the passkey k: keyId.set,
\* localStorage.setItem, contractId.set; finally: loading = false
LoginOk(i, k) ==
    /\ i \in 1..Len(connects)
    /\ connects[i].by = "login"
    /\ keyId' = k
    /\ connects' = keyIdSet(k, Remove(connects, i))
    /\ localStorage' = [localStorage EXCEPT ![SsdKeyId] = k]
    /\ contractId' = contractOf(k)
    /\ headerLoading' = FALSE
    /\ last' = "LoginOk"
    /\ UNCHANGED <<creating, headerError, sessionStorage, headerPc, signUpPc,
                   wallet, chatVars>>

\* the connectWallet call of login() threw
LoginFail(i) ==
    /\ i \in 1..Len(connects)
    /\ connects[i].by = "login"
    /\ headerError' = LoginError
    /\ headerLoading' = FALSE
    /\ connects' = Remove(connects, i)
    /\ last' = "LoginFail"
    /\ UNCHANGED <<creating, localStorage, sessionStorage, headerPc,
                   signUpPc, wallet, keyId, contractId, chatVars>>

\* signUp() is called: creating = true, error = null, account.createWallet
SignUpStart ==
    /\ headerPc = "mounted"
    /\ contractId = NULL
    /\ ~headerLoading /\ ~creating
    /\ signUpPc = "idle"
    /\ creating' = TRUE
    /\ headerError' = NULL
    /\ signUpPc' = "create"
    /\ wallet' = NULL
    /\ last' = "SignUpStart"
    /\ UNCHANGED <<headerLoading, localStorage, sessionStorage, connects,
                   headerPc, keyId, contractId, chatVars>>

\* account.createWallet resolved with the passkey k; server.send(signedTx)
CreateWalletOk(k) ==
    /\ signUpPc = "create"
    /\ wallet' = k
    /\ signUpPc' = "send"
    /\ last' = "CreateWalletOk"
    /\ UNCHANGED <<creating, headerLoading, headerError, localStorage,
                   sessionStorage, connects, headerPc, keyId, contractId,
                   chatVars>>

\* a signUp that stores the new key before the account is accepted
signUpCatchKeepsKey ==
    /\ headerError' = CreateError
    /\ creating' = FALSE
    /\ signUpPc' = "idle"
    /\ localStorage' = [localStorage EXCEPT
                          ![SsdKeyId] = IF wallet = NULL THEN @ ELSE wallet]
    /\ UNCHANGED <<headerLoading, sessionStorage, connects, headerPc, wallet,
                   keyId, contractId, chatVars>>

\* catch of signUp: error is set; finally: creating = false
signUpCatch ==
    /\ headerError' = CreateError
    /\ creating' = FALSE
    /\ signUpPc' = "idle"
    /\ UNCHANGED <<headerLoading, localStorage, sessionStorage, connects,
                   headerPc, wallet, keyId, contractId, chatVars>>

\* account.createWallet threw
CreateWalletFail ==
    /\ signUpPc = "create"
    /\ signUpCatch
    /\ last' = "CreateWalletFail"

\* server.send(signedTx) resolved: keyId.set, localStorage.setItem,
\* contractId.set; finally: creating = false
SignUpSendOk ==
    /\ signUpPc = "send"
    /\ keyId' = wallet
    /\ connects' = keyIdSet(wallet, connects)
    /\ headerLoading' = (notifies(wallet) \/ headerLoading)
    /\ localStorage' = [localStorage EXCEPT ![SsdKeyId] = wallet]
    /\ contractId' = contractOf(wallet)
    /\ creating' = FALSE
    /\ signUpPc' = "idle"
    /\ last' = "SignUpSendOk"
    /\ UNCHANGED <<headerError, sessionStorage, headerPc, wallet, chatVars>>

\* server.send(signedTx) threw
SignUpSendFail ==
    /\ signUpPc = "send"
    /\ signUpCatch
    /\ last' = "SignUpSendFail"

\* a logout that removes only the keys that start with "ssd:"
LogoutPrefixOnly ==
    /\ headerPc = "mounted"
    /\ contractId # NULL
    /\ keyId' = NULL
    /\ contractId' = NULL
    /\ localStorage' = [k \in StorageKeys |->
                          IF k[1] = "ssd:" THEN Absent ELSE localStorage[k]]
    /\ sessionStorage' = [k \in StorageKeys |->
                            IF k[1] = "ssd:" THEN Absent ELSE sessionStorage[k]]
    /\ headerPc' = "reloading"
    /\ last' = "Logout"
    /\ UNCHANGED <<creating, headerLoading, headerError, connects, signUpPc,
                   wallet, chatVars>>

\* logout(): keyId.set(null), contractId.set(null), the "ssd:" keys of both
\* storages are removed, location.reload() is called
Logout ==
    /\ headerPc = "mounted"
    /\ contractId # NULL
    /\ keyId' = NULL
    /\ contractId' = NULL
    /\ localStorage' = removeSsd(localStorage)
    /\ sessionStorage' = removeSsd(sessionStorage)
    /\ headerPc' = "reloading"
    /\ last' = "Logout"
    /\ UNCHANGED <<creating, headerLoading, headerError, connects, signUpPc,
                   wallet, chatVars>>

\* the page reloads: the pending calls are gone with the old page, and the
\* header starts anew over the storages as they are
Reload ==
    /\ headerPc = "reloading"
    /\ creating' = FALSE
    /\ headerLoading' = FALSE
    /\ headerError' = NULL
    /\ connects' = <<>>
    /\ headerPc' = "unmounted"
    /\ signUpPc' = "idle"
    /\ wallet' = NULL
    /\ keyId' = NULL
    /\ contractId' = NULL
    /\ last' = "Reload"
    /\ UNCHANGED <<localStorage, sessionStorage, chatVars>>

\* the user closes the error message
DismissError ==
    /\ headerPc = "mounted"
    /\ headerError # NULL
    /\ headerError' = NULL
    /\ last' = "DismissError"
    /\ UNCHANGED <<creating, headerLoading, localStorage, sessionStorage,
                   connects, headerPc, signUpPc, wallet, keyId, contractId,
                   chatVars>>

HeaderNext ==
    \/ HeaderMount
    \/ \E i \in 1..Len(connects) : ConnectOk(i)
    \/ \E i \in 1..Len(connects) : ConnectFail(i)
    \/ LoginStart
    \/ \E i \in 1..Len(connects), k \in PasskeyIds : LoginOk(i, k)
    \/ \E i \in 1..Len(connects) : LoginFail(i)
    \/ SignUpStart
    \/ \E k \in PasskeyIds : CreateWalletOk(k)
    \/ CreateWalletFail
    \/ SignUpSendOk
    \/ SignUpSendFail
    \/ Logout
    \/ Reload
    \/ DismissError

HeaderSpec == HeaderInit /\ [][HeaderNext]_vars

\* The events of the start-up session: one id and one close time, and of
\* each kind of defect its representative.
StartEvents ==
    {e \in RawEvents : e.id = 1 /\ e.ledgerClosedAt = 1
                         /\ e.topic0 \in {"scAddressTypeAccount", "notAnAddress"}}

\* Every operation of the component, the ledger holding StartEvents only.
StartNext ==
    \/ \E e \in StartEvents : Emit(e)
    \/ Mount
    \/ \E h \in HistLists : MessagesOk(h)
    \/ MessagesFail
    \/ InitLedgerOk
    \/ InitLedgerFail
    \/ InitEventsOk
    \/ InitEventsFail
    \/ TickFire
    \/ TickLedgerOk
    \/ TickLedgerFail
    \/ \E n \in Snaps : TickEventsOk(n)
    \/ \E n \in Snaps : TickEventsFail(n)
    \/ Destroy

\* The session in which every network call of onMount eventually returns or
\* throws: the indexer request, rpc.getLatestLedger and rpc.getEvents.
FairSpec ==
    /\ Init /\ [][StartNext]_vars
    /\ WF_vars(MessagesFail \/ \E h \in HistLists : MessagesOk(h))
    /\ WF_vars(InitLedgerOk \/ InitLedgerFail)
    /\ WF_vars(InitEventsOk \/ InitEventsFail)

\* The session while the scheduler runs and every RPC call succeeds: no
\* teardown, no failing rpc.getLatestLedger or rpc.getEvents.  The timer keeps
\* firing and every request is answered.
LiveNext ==
    \/ \E e \in RawEvents : Emit(e)
    \/ Mount
    \/ \E h \in HistLists : MessagesOk(h)
    \/ MessagesFail
    \/ InitLedgerOk
    \/ InitEventsOk
    \/ TickFire
    \/ TickLedgerOk
    \/ \E n \in Snaps : TickEventsOk(n)

LiveSpec ==
    /\ Init
    /\ [][LiveNext]_vars
    /\ WF_vars(Mount)
    /\ WF_vars(\E h \in HistLists : MessagesOk(h))
    /\ WF_vars(InitLedgerOk)
    /\ WF_vars(InitEventsOk)
    /\ WF_vars(TickFire)
    /\ WF_vars(TickLedgerOk)
    /\ \A n \in Snaps : WF_vars(TickEventsOk(n))

\* ---------------------------------------------------------------- helpers
isSorted(m) == \A k \in 1..(Len(m) - 1) : m[k].timestamp <= m[k + 1].timestamp
noDupIds(m) == \A j, k \in 1..Len(m) : j # k => m[j].id # m[k].id
idsOf(m) == {m[k].id : k \in 1..Len(m)}
count(m, i) == Cardinality({k \in 1..Len(m) : m[k].id = i})

TypeOK ==
    /\ pc \in {"start", "awaitMessages", "awaitLedger", "awaitEvents", "done"}
    /\ Len(chain) <= MaxChain
    /\ loading \in BOOLEAN
    /\ error \in {NULL, LoadError}
    /\ interval \in {UNDEFINED, Handle}
    /\ inflight <= MaxInflight

wellFormed(e) == FaultCount(e) = 0
chainIds == {chain[j].id : j \in 1..Len(chain)}
histIds == idsOf(hist.rows)
rawIds(b) == {b[j].id : j \in 1..Len(b)}
allWellFormed(b) == \A j \in 1..Len(b) : wellFormed(b[j])

\* the scheduler was stopped: onDestroy found the timer handle and cleared it
stopped == destroyed /\ interval # UNDEFINED /\ ~timerActive

\* a step in which a live fetch of a timer callback resolves or fails
TickCompletes == \E n \in Snaps : TickEventsOk(n) \/ TickEventsFail(n)

\* a step that begins a fetch operation: the initial live fetch of onMount
\* or the fetch of a timer callback
NewFetchStarted ==
    \/ pc # "awaitLedger" /\ pc' = "awaitLedger"
    \/ tickLedger' > tickLedger

\* ----------------------------------------------------------------- claims

\* C1: after every merge step (historical load, initial live fetch, every
\* tick) no two records of msgs share an id, whatever the historical and
\* the live source delivered.
C1_NoDuplicateIds == noDupIds(msgs)

\* C2: after a live merge of a batch of well-formed events, every id of the
\* previous list or of the batch occurs in the new list exactly once.
C2_EveryIdExactlyOnce ==
    [][\A n \in Snaps :
          (TickEventsOk(n) /\ allWellFormed(batch(n)))
             => \A i \in idsOf(msgs) \cup rawIds(batch(n)) : count(msgs', i) = 1]_vars

\* C3: whenever callGetMessages or callGetEvents has completed, msgs is
\* sorted ascending by timestamp, in whatever order the sources delivered.
C3_SortedByTimestamp == isSorted(msgs)

\* C3 witness: a tick merged two live events that the ledger delivered in
\* descending timestamp order.
C3_Witness ==
    /\ last = "TickEventsOk"
    /\ hist = Failed
    /\ Len(chain) = 2 /\ Len(msgs) = 2
    /\ chain[1].ledgerClosedAt > chain[2].ledgerClosedAt
    /\ msgs[1].id = chain[2].id /\ msgs[2].id = chain[1].id
    /\ msgs[1].timestamp < msgs[2].timestamp

\* C4: a tick whose rpc.getLatestLedger or rpc.getEvents throws leaves msgs
\* as it was: same records, same order.
C4_FailedTickKeepsList ==
    [][(TickLedgerFail \/ \E n \in Snaps : TickEventsFail(n)) => msgs' = msgs]_vars

\* C4 witness: rpc.getEvents of a tick has just failed while the list held
\* two records with different timestamps.
C4_Witness ==
    /\ last = "TickEventsFail"
    /\ Len(msgs) >= 2
    /\ msgs[1].timestamp # msgs[Len(msgs)].timestamp

\* C5: once onDestroy has run, no new fetch is started.
C5_NoFetchAfterDestroy == [][destroyed => ~NewFetchStarted]_vars

\* C6: when the scheduler was stopped with a fetch in flight, the list is
\* duplicate-free and sorted after the late completion, and no tick fires
\* after the stop.
C6_LateCompletionConsistent ==
    [][stopped => /\ (TickCompletes => noDupIds(msgs') /\ isSorted(msgs'))
                  /\ ~TickFire]_vars

\* C7: when onMount has finished, the periodic timer has been started, also
\* when the initial latest-ledger query or the initial live fetch failed.
C7_InitFailureNotFatal == pc = "done" => interval = Handle

\* C8: a record made from an event whose first topic has an address
\* discriminator other than account or contract has the sender "unknown".
C8_UnknownSender ==
    \A k \in 1..Len(msgs) :
        (/\ msgs[k].id \notin histIds
         /\ \A j \in 1..Len(chain) :
               (chain[j].id = msgs[k].id /\ wellFormed(chain[j]))
                  => chain[j].topic0 = "scAddressTypeMuxedAccount")
        => msgs[k].addr = "unknown"

\* C9: when a batch contains a malformed event, every well-formed event of
\* the batch, before or after it, is in the list after the fetch.
C9_OnlyMalformedSkipped ==
    [][\A n \in Snaps :
          TickEventsOk(n)
             => \A j \in 1..n : wellFormed(chain[j]) => chain[j].id \in idsOf(msgs')]_vars

\* C10: a failed getMessages yields the empty list and no error, and onMount
\* goes on as with zero historical messages: it performs the initial live
\* fetch, every record of the list comes from the ledger, and unless the
\* latest-ledger query fails the timer is started.
C10_HistoricalFailureDegrades ==
    hist = Failed =>
        /\ pc \in {"awaitLedger", "awaitEvents", "done"}
        /\ (last = "MessagesFail"
              => msgs = <<>> /\ error = NULL /\ loading /\ pc = "awaitLedger")
        /\ idsOf(msgs) \subseteq chainIds
        /\ (pc = "done" /\ error = NULL => interval = Handle)

\* C10 witness: after a failed getMessages the timer runs and a live event
\* has reached the list.
C10_Witness ==
    /\ hist = Failed
    /\ pc = "done"
    /\ interval = Handle /\ timerActive
    /\ Len(msgs) >= 1


\* C11: session start has a fixed order: the historical fetch is performed
\* once and has completed before the first live fetch starts; the timer is
\* created only when the first live fetch has completed; no tick fires
\* before both initial fetches have finished.
C11_StartOrder ==
    [][/\ (hist # NotLoaded => hist' = hist)
       /\ (pc' = "awaitMessages" => pc \in {"start", "awaitMessages"})
       /\ (pc' \in {"awaitLedger", "awaitEvents"} => hist' # NotLoaded)
       /\ (interval' = Handle /\ interval # Handle => pc = "awaitEvents" /\ pc' = "done")
       /\ (timerActive' => interval' = Handle)
       /\ (tickLedger' > tickLedger => pc = "done" /\ hist # NotLoaded)]_vars

\* C11 witness: after a historical load and the initial live fetch the timer
\* exists and a tick has fired.
C11_Witness ==
    /\ hist.state = "ok"
    /\ pc = "done"
    /\ interval = Handle
    /\ last = "TickFire"
    /\ tickLedger = 1

\* C12: while the scheduler runs and the RPC calls succeed, every well-formed
\* event of the chat contract inside the look-back window is eventually in
\* the list (weak fairness of ticks and fetch completions).
C12_EventuallyListed ==
    \A j \in 1..MaxChain :
        (Len(chain) >= j /\ wellFormed(chain[j]) /\ pc = "done" /\ timerActive)
           ~> (Len(chain) >= j /\ chain[j].id \in idsOf(msgs))

\* The completions in which a fetch degraded: the historical fetch, the
\* initial live fetch or a periodic tick failed.
degraded == last \in {"MessagesFail", "InitLedgerFail", "InitEventsFail",
                      "TickLedgerFail", "TickEventsFail"}

\* C13: whenever the most recent fetch degraded, the error indicator shown to
\* the user interface is set.
C13_DegradedSetsError == degraded => error # NULL

\* how often the record r occurs in the list m
occurrences(m, r) == Cardinality({k \in 1..Len(m) : m[k] = r})

\* the lists a and b hold the same records, each as often
sameRecords(a, b) ==
    \A r \in {a[k] : k \in 1..Len(a)} \cup {b[k] : k \in 1..Len(b)} :
        occurrences(a, r) = occurrences(b, r)

\* C14: merging a list A with an empty incoming batch yields A sorted
\* ascending by timestamp, with the same records and the same length.
C14_EmptyBatchIdentity ==
    (mergeCalls >= 1 /\ mergeB = <<>>)
        => /\ isSorted(mergeOut)
           /\ Len(mergeOut) = Len(mergeA)
           /\ sameRecords(mergeOut, mergeA)
           /\ mergeOut = sort(mergeA)

\* An empty batch was merged into a list of two records of different times.
C14_Witness ==
    /\ mergeCalls = 1
    /\ mergeB = <<>>
    /\ Len(mergeA) = 2
    /\ mergeA[1].timestamp < mergeA[2].timestamp
    /\ mergeOut = mergeA

\* C15: merging a list with a batch of events that are already in it gives
\* the same list as merging it with an empty batch, and a tick that returns
\* the same events again never changes the list.
C15_RemergeStable ==
    [][/\ (mergeCalls = 0 /\ rawIds(mergeB) \subseteq idsOf(mergeA))
            => mergeOut' = callGetEvents(mergeA, <<>>)
       /\ (mergeCalls >= 1 => mergeOut' = mergeOut)]_vars

\* A batch of two well-formed events whose ids are exactly those of the list
\* was merged MaxCalls times.
C15_Witness ==
    /\ mergeCalls = MaxCalls
    /\ Len(mergeB) = 2
    /\ allWellFormed(mergeB)
    /\ rawIds(mergeB) = idsOf(mergeA)
    /\ Cardinality(idsOf(mergeA)) = 2
    /\ mergeOut = mergeA

\* the order of the steps of one send()
SendSteps == <<"create", "sign", "submit">>
sendFailed == {"CreateFail", "SignFail", "SubmitFail"}

\* C16: a send creates the transaction, then signs it, then submits it; a
\* transaction reaches the relay only after its signing succeeded, and after
\* a failed step no later step of that send runs.
C16_SendOrder ==
    [][/\ sendLog' = SubSeq(SendSteps, 1, Len(sendLog'))
       /\ (sendLog' # sendLog =>
             \/ sendLog' = <<"create">> /\ sendPc = "idle"
             \/ sendLog' = Append(sendLog, "sign") /\ last' = "CreateOk"
             \/ sendLog' = Append(sendLog, "submit") /\ last' = "SignOk")
       /\ (submitted' # submitted =>
             /\ sendPc = "sign"
             /\ last' = "SignOk"
             /\ submitted' = submitted \cup {Signed(at)})
       /\ (\A tx \in submitted' : tx.signed)
       /\ (last' \in sendFailed =>
             /\ sendPc' = "idle"
             /\ sendLog' = sendLog
             /\ submitted' = submitted)]_vars

\* A send failed at the signing step after an earlier send went through.
C16_Witness ==
    /\ last = "SignFail"
    /\ sendLog = <<"create", "sign">>
    /\ submitted # {}
    /\ at \notin submitted

\* C17: when a tick fired while the fetch of an earlier tick was outstanding,
\* both fetches run, and after each of them completes msgs has no duplicate
\* id and is sorted ascending by timestamp.
C17_OverlapSafe ==
    [][(inflight >= 2 /\ TickCompletes)
          => noDupIds(msgs') /\ isSorted(msgs')]_vars

histLoaded == pc \notin {"start", "awaitMessages"}

\* every record of the list a is in the list b at least as often
keepsRecords(a, b) ==
    \A r \in {a[k] : k \in 1..Len(a)} : occurrences(b, r) >= occurrences(a, r)

\* C19: after the historical load, a record of msgs stays in msgs with all
\* its fields through every later step, successful or failed, and the set
\* of ids in the list never shrinks.
C19_AppendOnly ==
    [][histLoaded => /\ keepsRecords(msgs, msgs')
                     /\ idsOf(msgs) \subseteq idsOf(msgs')]_vars

\* A tick added a record to a list that already held records, some of them
\* from the historical load.
C19_Witness ==
    /\ last = "TickEventsOk"
    /\ merged.added >= 1
    /\ Len(msgs) >= 3
    /\ hist.rows # <<>>

\* the records of the list m with the id i, in list order
recordsOf(m, i) == SelectSeq(m, LAMBDA r : r.id = i)

\* an event the forEach does not return from at once
passesFilter(e) == e.type = "contract" /\ e.contractId

\* the position of the first event of the batch b with the id i that passes
\* the filter
firstIndex(b, i) ==
    CHOOSE k \in 1..Len(b) :
        /\ b[k].id = i /\ passesFilter(b[k])
        /\ \A j \in 1..(k - 1) : ~(b[j].id = i /\ passesFilter(b[j]))

\* C20: first occurrence wins: an id that is in the list keeps the records it
\* has and the incoming copy is dropped, also when its contents differ; an
\* id that enters the list takes the record of its first occurrence in the
\* batch.
C20_FirstOccurrenceWins ==
    [][\A i \in Ids :
          IF i \in idsOf(mergeOut)
            THEN recordsOf(mergeOut', i) = recordsOf(mergeOut, i)
            ELSE i \in idsOf(mergeOut')
                   => recordsOf(mergeOut', i)
                        = <<toRecord(mergeB[firstIndex(mergeB, i)])>>]_vars

\* A batch was merged that held a well-formed event whose id was in the list
\* with another timestamp, next to an event that was added.
C20_Witness ==
    /\ mergeCalls = 1
    /\ Len(mergeOut) = Len(mergeA) + 1
    /\ \E k \in 1..Len(mergeB) :
          /\ wellFormed(mergeB[k])
          /\ mergeB[k].id \in idsOf(mergeA)
          /\ \A j \in 1..Len(mergeA) :
                mergeA[j].id = mergeB[k].id
                   => mergeA[j].timestamp # mergeB[k].ledgerClosedAt
          /\ recordsOf(mergeOut, mergeB[k].id) = recordsOf(mergeA, mergeB[k].id)

\* C21: merging two batches in either order gives lists with the same set of
\* ids, both in ascending timestamp order; only the surviving copy of an id
\* that occurs twice may differ.
C21_MergeCommutes ==
    mergeCalls = 2 =>
        /\ idsOf(mergeOut) = idsOf(mergeRev)
        /\ isSorted(mergeOut)
        /\ isSorted(mergeRev)

\* the records of the list m with the timestamp t, in list order
atTime(m, t) == SelectSeq(m, LAMBDA r : r.timestamp = t)

\* C22: records with equal timestamps keep their insertion order through a
\* merge: the records the list had come first, in the order they had, and
\* the new ones follow in batch order.
C22_StableTies ==
    [][\A t \in Stamps :
          LET old == atTime(mergeOut, t)
              now == atTime(mergeOut', t)
          IN /\ Len(now) >= Len(old)
             /\ SubSeq(now, 1, Len(old)) = old
             /\ \A p, q \in (Len(old) + 1)..Len(now) :
                   p < q => firstIndex(mergeB, now[p].id)
                              < firstIndex(mergeB, now[q].id)]_vars

\* A batch of two events of one timestamp, id 2 before id 1, was merged into
\* the empty list: the list holds them in batch order.
C22_Witness ==
    /\ mergeCalls = 1
    /\ mergeA = <<>>
    /\ Len(mergeOut) = 2
    /\ mergeOut[1].timestamp = mergeOut[2].timestamp
    /\ mergeOut[1].id = 2
    /\ mergeOut[2].id = 1

\* C23: sending is true exactly while a send is in progress: from the step
\* in which send() passes its guard to the step in which the send finishes,
\* by success or by a failure of the create, sign or submit step.
C23_SendingWhileInProgress == sending <=> sendPc # "idle"

\* A send whose submit step failed has finished and sending is false again.
C23_Witness ==
    /\ last = "SubmitFail"
    /\ sendLog = SendSteps
    /\ sendPc = "idle"
    /\ ~sending

C26_SignUpCommitsOnSuccess ==
    [][/\ (creating /\ last' \in {"CreateWalletFail", "SignUpSendFail"}) =>
             /\ keyId' = keyId
             /\ contractId' = contractId
             /\ localStorage'[SsdKeyId] = localStorage[SsdKeyId]
             /\ headerError' = CreateError
       /\ (/\ creating
           /\ \/ keyId' # keyId
              \/ contractId' # contractId
              \/ localStorage'[SsdKeyId] # localStorage[SsdKeyId]) =>
             /\ signUpPc = "send"
             /\ last' = "SignUpSendOk"
             /\ keyId' = wallet
             /\ contractId' = contractOf(wallet)
             /\ localStorage'[SsdKeyId] = wallet]_vars

\* The account-creation transaction of a new passkey was rejected: the
\* session still has no contract and the stored key is not the new one.
C26_Witness ==
    /\ last = "SignUpSendFail"
    /\ wallet # NULL
    /\ keyId # wallet
    /\ contractId = NULL
    /\ localStorage[SsdKeyId] # wallet
    /\ headerError = CreateError
    /\ ~creating

C28_LoadingWhileConnecting == connects # <<>> => headerLoading

\* C29: once onMount has started, loading is eventually reset to false,
\* whether the initial fetches succeed or fail, and it is never set to true
\* again.
C29_LoadingEnds ==
    /\ (pc # "start") ~> ~loading
    /\ [][~loading => ~loading']_vars

\* The initial latest-ledger query failed after a failed historical fetch,
\* and the component is no longer loading.
C29_Witness ==
    /\ pc = "done"
    /\ ~loading
    /\ hist = Failed
    /\ error = LoadError
    /\ interval = UNDEFINED

====
